---- MODULE Spec2Model ----
(***************************************************************************)
(* Model of the apt acquire method for spacewalk                           *)
(* (client/debian/apt-spacewalk/spacewalk.py).                             *)
(*                                                                         *)
(* Python strings are sequences of tokens: a token is one character that   *)
(* the code inspects (" ", ":", "/", "\n") or a run of characters that it  *)
(* never looks inside ("URI", "dists", "600").  Python values that may be  *)
(* None are tagged records, so that None, strings and dicts compare.       *)
(***************************************************************************)
EXTENDS Integers, Sequences, FiniteSets, TLC

\* ------------------------------------------------------------------------
\* Bounds of the model
\* ------------------------------------------------------------------------
MaxFrames == 2      \* frames the front end sends before it closes the stream
MaxChunks == 2      \* non-empty chunks one response body delivers

\* ------------------------------------------------------------------------
\* Python values
\* ------------------------------------------------------------------------
None == [type |-> "NoneType"]
Unset == [type |-> "unset"]            \* attribute that was never assigned
Str(s) == [type |-> "str", v |-> s]
Dict(d) == [type |-> "dict", v |-> d]
List(l) == [type |-> "list", v |-> l]
PyInt(n) == [type |-> "int", v |-> n]
EmptyDict == [k \in {} |-> None]
\* Python truth value of a tagged value
Truthy(x) == /\ x # None
             /\ x.type \in {"str", "list"} => Len(x.v) > 0
             /\ x.type = "dict" => DOMAIN x.v # {}

\* an exception object: class name and str(e)
Exc(cls, m) == [cls |-> cls, msg |-> m]
NoExc == [cls |-> <<>>, msg |-> <<>>]
KeyError(k) == Exc(<<"KeyError">>, <<"'">> \o k \o <<"'">>)

\* ------------------------------------------------------------------------
\* String primitives
\* ------------------------------------------------------------------------
WhiteSpace == {" ", "\n"}

\* index of the first occurrence of token c in s, 0 when there is none
RECURSIVE IndexFrom(_, _, _)
IndexFrom(s, c, i) ==
    IF i > Len(s) THEN 0
    ELSE IF s[i] = c THEN i ELSE IndexFrom(s, c, i + 1)
Index(s, c) == IndexFrom(s, c, 1)

\* s.split(c, 1)
Split1(s, c) ==
    LET i == Index(s, c)
    IN  IF i = 0 THEN <<s>>
        ELSE <<SubSeq(s, 1, i - 1), SubSeq(s, i + 1, Len(s))>>

\* s.strip()
RECURSIVE LStrip(_)
LStrip(s) == IF s # <<>> /\ Head(s) \in WhiteSpace THEN LStrip(Tail(s)) ELSE s
RECURSIVE RStrip(_)
RStrip(s) ==
    IF s # <<>> /\ s[Len(s)] \in WhiteSpace
    THEN RStrip(SubSeq(s, 1, Len(s) - 1)) ELSE s
Strip(s) == RStrip(LStrip(s))

\* does pat occur in s at position i
MatchAt(s, pat, i) ==
    /\ i + Len(pat) - 1 <= Len(s)
    /\ \A j \in 1..Len(pat) : s[i + j - 1] = pat[j]

\* position of the first occurrence of pat in s, 0 when there is none
RECURSIVE FindFrom(_, _, _)
FindFrom(s, pat, i) ==
    IF i + Len(pat) - 1 > Len(s) THEN 0
    ELSE IF MatchAt(s, pat, i) THEN i ELSE FindFrom(s, pat, i + 1)
Find(s, pat) == FindFrom(s, pat, 1)

\* s.replace(pat, rep, 1)
Replace1(s, pat, rep) ==
    LET i == Find(s, pat)
    IN  IF i = 0 THEN s
        ELSE SubSeq(s, 1, i - 1) \o rep \o SubSeq(s, i + Len(pat), Len(s))

\* s ends with suffix t
EndsWith(s, t) ==
    /\ Len(t) <= Len(s)
    /\ SubSeq(s, Len(s) - Len(t) + 1, Len(s)) = t

\* int(s) for the decimal literals that occur; ValueError otherwise
IntOf(s) == CASE s = <<"600">> -> 600
              [] s = <<"601">> -> 601
              [] s = <<"100">> -> 100
              [] s = <<"102">> -> 102
              [] s = <<"200">> -> 200
              [] s = <<"201">> -> 201
              [] s = <<"400">> -> 400

\* str(n) for the small integers that occur
StrOf(n) == CASE n = 0 -> <<"0">>
              [] n = 1 -> <<"1">>
              [] n = 2 -> <<"2">>
              [] n = 3 -> <<"3">>
              [] n = 4 -> <<"4">>
              [] n = 5 -> <<"5">>
              [] n = 6 -> <<"6">>
              [] n = 100 -> <<"100">>
              [] n = 102 -> <<"102">>
              [] n = 200 -> <<"200">>
              [] n = 201 -> <<"201">>
              [] n = 400 -> <<"400">>
              [] n = 404 -> <<"404">>
              [] n = 500 -> <<"500">>

\* urlparse(url): scheme://netloc/path
Urlparse(u) ==
    IF Len(u) >= 4 /\ u[2] = ":" /\ u[3] = "/" /\ u[4] = "/"
    THEN LET rest == SubSeq(u, 5, Len(u))
             i == Index(rest, "/")
             cut == IF i = 0 THEN Len(rest) + 1 ELSE i
         IN  [scheme |-> <<u[1]>>,
              netloc |-> SubSeq(rest, 1, cut - 1),
              path |-> SubSeq(rest, cut, Len(rest))]
    ELSE [scheme |-> <<>>, netloc |-> <<>>, path |-> u]

\* ------------------------------------------------------------------------
\* Message codec (class pkg_acquire_method)
\* ------------------------------------------------------------------------
K_number == <<"_number">>
K_text == <<"_text">>
K_URI == <<"URI">>
K_Filename == <<"Filename">>
K_Message == <<"Message">>
K_FailReason == <<"FailReason">>
K_Size == <<"Size">>
K_LastModified == <<"Last-Modified">>
K_MD5 == <<"MD5-Hash">>
K_MD5Sum == <<"MD5Sum-Hash">>
K_SHA256 == <<"SHA256-Hash">>

\* d[k] = v for a Python dict d
DictSet(d, k, v) == (k :> v) @@ d

\* the lines of one frame after the first line, as __get_next_msg's while
\* loop reads them: lines[i..] are what sys.stdin.readline() will return,
\* and the end of the sequence is the end of the stream.  The result is
\* the message, whether the end of the stream was hit, and the index of
\* the line the next readline() will return.
RECURSIVE ReadFields(_, _, _)
ReadFields(lines, i, result) ==
    IF i > Len(lines) THEN [msg |-> result, eof |-> TRUE, next |-> i]
    ELSE IF lines[i] = <<"\n">>
         THEN [msg |-> result, eof |-> FALSE, next |-> i + 1]
    ELSE LET s == Split1(lines[i], ":")
         IN  ReadFields(lines, i + 1, DictSet(result, s[1], Strip(s[2])))

\* __get_next_msg on a stream that delivers `lines` and then ends
ParseMsg(lines) ==
    IF lines = <<>> THEN [msg |-> None, eof |-> TRUE, next |-> 1]
    ELSE LET s == Split1(lines[1], " ")
             first == DictSet(DictSet(EmptyDict, K_number, IntOf(s[1])),
                              K_text, Strip(s[2]))
             r == ReadFields(lines, 2, first)
         IN  [msg |-> Dict(r.msg), eof |-> r.eof, next |-> r.next]

\* the fields __dict2msg renders: those whose value is not None
Populated(msg) ==
    [k \in {x \in DOMAIN msg : msg[x] # None} |-> msg[k].v]

\* mutant: the fields are written without a line feed after each
RECURSIVE Dict2MsgIn(_, _)
Dict2MsgIn_one_line(msg, keys) ==
    IF keys = <<>> THEN <<>>
    ELSE LET item == Head(keys)
         IN  (IF msg[item] # None
              THEN item \o <<":", " ">> \o msg[item].v
              ELSE <<>>) \o Dict2MsgIn(msg, Tail(keys))

\* __dict2msg: one "item: value\n" line per populated field, in the
\* order `keys` iterates over them
Dict2MsgIn(msg, keys) ==
    IF keys = <<>> THEN <<>>
    ELSE LET item == Head(keys)
         IN  (IF msg[item] # None
              THEN item \o <<":", " ">> \o msg[item].v \o <<"\n">>
              ELSE <<>>) \o Dict2MsgIn(msg, Tail(keys))

\* ------------------------------------------------------------------------
\* I/O events of the process: frames printed on stdout and calls into the
\* collaborators (up2date_client, rhn.connections, the file system).
\* op names the event; n, s and d are its integer, string and dict operand.
\* ------------------------------------------------------------------------
Event(op, n, s, d) == [op |-> op, n |-> n, s |-> s, d |-> d]
Call(op) == Event(op, 0, <<>>, EmptyDict)
\* print "<number> <text>\n%s\n" % self.__dict2msg(msg),
Emit(number, text, msg) == Event("print", number, text, Populated(msg))
\* the characters that print statement writes, when __dict2msg iterates
\* over the keys in the order `keys`
EmitText(number, text, msg, keys) ==
    StrOf(number) \o <<" ">> \o text \o <<"\n">>
    \o Dict2MsgIn(msg, keys) \o <<"\n">>

T_Capabilities == <<"Capabilities">>
T_Status == <<"Status">>
T_URIStart == <<"URI", " ", "Start">>
T_URIDone == <<"URI", " ", "Done">>
T_URIFailure == <<"URI", " ", "Failure">>

\* status(**kwargs)
status(uri_, message) ==
    Emit(102, T_Status, (K_URI :> Str(uri_)) @@ (K_Message :> Str(message)))
\* uri_start(msg), uri_done(msg), uri_failure(msg)
uri_start(msg) == Emit(200, T_URIStart, msg)
uri_done(msg) == Emit(201, T_URIDone, msg)
uri_failure(msg) == Emit(400, T_URIFailure, msg)

\* ------------------------------------------------------------------------
\* The environment: what the front end sends, what the configuration file,
\* the collaborators and the server may answer
\* ------------------------------------------------------------------------
Line(s) == s \o <<"\n">>
FieldLine(k, v) == Line(k \o <<":", " ">> \o v)
BlankLine == <<"\n">>

ServerHost == <<"srv">>
OtherHost == <<"mirror">>
Url(scheme, host, path) == <<scheme, ":", "/", "/">> \o host \o path

PathRepomd == <<"/", "dists", "/", "channels", ":", "/", "main", "/",
                "repodata", "/", "repomd.xml">>
PathBinary == <<"/", "dists", "/", "channels", ":", "/", "main", "/",
                "binary-", "amd64", "/", "Packages">>
DestFile == <<"/", "tmp", "/", "out">>

Head600 == Line(<<"600", " ", "URI", " ", "Acquire">>)
Head601 == Line(<<"601", " ", "Configuration">>)
Acquire(u) == <<Head600, FieldLine(K_URI, u), FieldLine(K_Filename, DestFile)>>

\* the frames the front end may send, each as the lines readline() returns
\* up to the blank line ...
CompleteFrames ==
    { Acquire(Url("http", ServerHost, PathRepomd)) \o <<BlankLine>>,
      Acquire(Url("http", ServerHost, PathBinary)) \o <<BlankLine>>,
      Acquire(Url("http", OtherHost, PathRepomd)) \o <<BlankLine>>,
      <<Head600, FieldLine(K_Filename, DestFile), BlankLine>>,
      <<Head600, FieldLine(K_URI, Url("http", ServerHost, PathRepomd)),
        BlankLine>>,
      <<Head600, FieldLine(K_URI, Url("http", OtherHost, PathRepomd)),
        BlankLine>>,
      <<Head601, BlankLine>> }
\* ... or up to the point where the stream is closed in mid-frame
TruncatedFrames ==
    { <<Head600>>,
      Acquire(Url("http", ServerHost, PathRepomd)),
      <<Head601>> }

\* what config.initUp2dateConfig() may return
Config(url, nossl, cacert) ==
    [serverURL |-> url, useNoSSLForPackages |-> nossl, sslCACert |-> cacert]
CaCert == <<"/", "usr", "/", "share", "/", "rhn", "/", "RHNS-CA-CERT">>
ConfigFiles ==
    { Config(Str(Url("http", ServerHost, <<"/", "XMLRPC">>)), 0, None),
      Config(Str(Url("https", ServerHost, <<"/", "XMLRPC">>)), 0,
             List(<<CaCert>>)),
      Config(Str(Url("https", ServerHost, <<"/", "XMLRPC">>)), 0, List(<<>>)),
      Config(Str(Url("https", ServerHost, <<"/", "XMLRPC">>)), 1, None),
      Config(None, 0, None) }

\* what up2dateAuth.getLoginInfo() may return
rhn_needed_headers == << <<"X-RHN-Server-Id">>, <<"X-RHN-Auth-User-Id">>,
                         <<"X-RHN-Auth">>, <<"X-RHN-Auth-Server-Time">>,
                         <<"X-RHN-Auth-Expire-Offset">> >>
NeededSet == {rhn_needed_headers[i] : i \in 1..Len(rhn_needed_headers)}
FullLogin == [k \in NeededSet |-> <<"v">> \o k]
Without(d, ks) == [k \in DOMAIN d \ ks |-> d[k]]
LoginAnswers ==
    { None, Dict(EmptyDict), Dict(FullLogin),
      Dict(Without(FullLogin, {<<"X-RHN-Auth">>})),
      Dict(Without(FullLogin, {<<"X-RHN-Auth-User-Id">>,
                               <<"X-RHN-Auth-Expire-Offset">>})) }

\* what rhnChannel.getChannelDetails() may return
Channel(label, parent) == [label |-> label, parent_channel |-> parent]
RootLabels == { <<"prod-x86_64">>, <<"binary-", "x">> }
ChildLabel == <<"tools">>
ChannelAnswers ==
    { List(<<Channel(r, <<>>), Channel(ChildLabel, r)>>) : r \in RootLabels }
    \cup { List(<<Channel(ChildLabel, <<"prod-x86_64">>)>>), List(<<>>) }

\* what the server may answer: status line and headers of a response
Response(st, reason, clen, lastmod) ==
    [status |-> st, reason |-> reason,
     headers |-> [content_length |-> clen, last_modified |-> lastmod],
     nread |-> 0]
Responses ==
    { Response(200, <<"OK">>, c, m) :
          c \in {None, Str(<<"1">>), Str(<<"3">>)},
          m \in {None, Str(<<"Mon">>)} }
    \cup { Response(404, <<"Not", " ", "Found">>, None, None) }
\* the non-empty chunks res.read(4096) may return
Chunks == { <<"a">>, <<"b", "c">> }

\* exceptions raised by the collaborators
CommunicationError == Exc(<<"CommunicationError">>, <<"Connection refused">>)
SocketError == Exc(<<"error">>, <<"Connection reset by peer">>)
IOError == Exc(<<"IOError">>, <<"No space left on device">>)
ResponseNotReady == Exc(<<"ResponseNotReady">>, <<>>)

\* ------------------------------------------------------------------------
\* Path rewriter (spacewalk_method.__transform_document)
\* ------------------------------------------------------------------------
\* tokens made of [\d\w] characters only
WordTokens == {"dists", "channels", "main", "repodata", "amd64", "Packages",
               "x", "tools", "XMLRPC", "tmp", "out", "srv", "mirror"}

\* first position after i + 1 that holds no word token
RECURSIVE WordRunEnd(_, _)
WordRunEnd(s, j) ==
    IF j <= Len(s) /\ s[j] \in WordTokens THEN WordRunEnd(s, j + 1) ELSE j

\* last position of a match of /binary-[\d\w]*/ that starts at i, else 0
BinaryMatch(s, i) ==
    IF i + 2 <= Len(s) /\ s[i] = "/" /\ s[i + 1] = "binary-"
    THEN LET j == WordRunEnd(s, i + 2)
         IN  IF j <= Len(s) /\ s[j] = "/" THEN j ELSE 0
    ELSE 0

\* re.sub('/binary-[\d\w]*/', '/repodata/', s, 1)
RECURSIVE ReSubBinaryFrom(_, _)
ReSubBinaryFrom(s, i) ==
    IF i > Len(s) THEN s
    ELSE IF BinaryMatch(s, i) # 0
         THEN SubSeq(s, 1, i - 1) \o <<"/", "repodata", "/">>
              \o SubSeq(s, BinaryMatch(s, i) + 1, Len(s))
         ELSE ReSubBinaryFrom(s, i + 1)
ReSubBinary(s) == ReSubBinaryFrom(s, 1)

MainMarker == <<"dists", "/", "channels", ":", "/", "main", "/">>
ChannelsPrefix == <<"dists", "/", "channels", ":", "/">>
GetReqPrefix == <<"/", "XMLRPC", "/", "GET-REQ", "/">>

\* mutant: the API prefix is substituted before the channel marker
transform_document_prefix_first(doc, base) ==
    LET d1 == Replace1(doc, ChannelsPrefix, GetReqPrefix)
        d2 == ReSubBinary(d1)
    IN  Replace1(d2, MainMarker, ChannelsPrefix \o base \o <<"/">>)

transform_document(doc, base) ==
    LET d1 == Replace1(doc, MainMarker, ChannelsPrefix \o base \o <<"/">>)
        d2 == ReSubBinary(d1)
    IN  Replace1(d2, ChannelsPrefix, GetReqPrefix)

\* get_ssl_ca_cert(up2date_cfg): the list of CA files, or the exception
\* raised (the name BadSslCaCertConfig is bound nowhere in the module)
BadSslCaCertConfig ==
    Exc(<<"NameError">>,
        <<"global name 'BadSslCaCertConfig' is not defined">>)
get_ssl_ca_cert(cfg) ==
    IF ~ Truthy(cfg.sslCACert) THEN [raised |-> TRUE, v |-> <<>>]
    ELSE IF cfg.sslCACert.type = "list"
         THEN [raised |-> FALSE, v |-> cfg.sslCACert.v]
         ELSE [raised |-> FALSE, v |-> <<cfg.sslCACert.v>>]

\* raise up2date_client.AuthenticationError(...): the module binds the
\* names config, rhnChannel, up2dateAuth and up2dateErrors, not
\* up2date_client, so evaluating the expression raises NameError
AuthenticationError(m) ==
    Exc(<<"NameError">>, <<"global name 'up2date_client' is not defined">>)

not_registered_msg ==
    <<"This system is not registered with the spacewalk server">>

\* hexdigest() of an accumulator that was fed `data`
HexDigest(alg, data) == <<alg, "(">> \o data \o <<")">>

\* ------------------------------------------------------------------------
\* State
\* ------------------------------------------------------------------------
VARIABLES
    pc,             \* position of the process in __main__ / run / fetch
    eof,            \* pkg_acquire_method.__eof
    msg,            \* run: the message being dispatched
    ret,            \* exit status of the process, None while it runs
    exc,            \* the exception being propagated to run's handlers
    uri, uri_parsed, filename,          \* set by fetch, kept between calls
    up2date_cfg, up2date_server, login_info, svr_channels, base_channel,
    http_headers, conn,                 \* the memoized session
    document, res, f, hash_sha256, hash_md5,    \* locals of fetch
    config_file,    \* environment: the configuration on disk
    nframes,        \* environment: frames the front end has sent
    stdin_end,      \* environment: "open", or where the stream was closed:
                    \* "boundary" (between frames) or "midframe"
    nconn,          \* environment: connection objects constructed
    unread,         \* environment: conn has a response that is not closed
    io,             \* I/O events since the last frame was read
    wire,           \* codec: the lines an encoder has written and the
                    \* decoder has not read yet
    debug,          \* updateChecksums.py: the global debug
    LogObj,         \* updateChecksums.py: the local Log of
                    \* process_package_data
    visited,        \* updateChecksums.py: packages the for loop has taken
    i_count,        \* updateChecksums.py: the local i
    skip_list,      \* updateChecksums.py: the local skip_list
    uncommitted     \* environment: packages whose key associations are
                    \* written in the open transaction

loopv == <<eof, msg, ret, nframes, stdin_end>>
requestv == <<uri, uri_parsed, filename>>
sessionv == <<up2date_cfg, up2date_server, login_info, svr_channels,
              base_channel, http_headers, conn, nconn>>
localv == <<document, res, f, hash_sha256, hash_md5>>
batchv == <<debug, LogObj, visited, i_count, skip_list, uncommitted>>
\* what no step of the method changes
fixedv == <<config_file, wire, batchv>>
vars == <<pc, exc, io, unread, fixedv, loopv, requestv, sessionv, localv>>

NoResponse == [status |-> 0, reason |-> <<>>,
               headers |-> [content_length |-> None, last_modified |-> None],
               nread |-> 0]
NoFile == [open |-> FALSE, data |-> <<>>]

\* the state of a fresh process, but for pc and the configuration on disk
Boot ==
    /\ eof = FALSE
    /\ msg = None
    /\ ret = None
    /\ exc = NoExc
    /\ uri = Unset /\ uri_parsed = Unset /\ filename = Unset
    /\ up2date_cfg = None /\ up2date_server = Unset
    /\ login_info = None /\ svr_channels = None /\ base_channel = None
    /\ http_headers = None /\ conn = None
    /\ document = <<>> /\ res = NoResponse /\ f = NoFile
    /\ hash_sha256 = <<>> /\ hash_md5 = <<>>
    /\ nframes = 0
    /\ stdin_end = "open"
    /\ nconn = 0
    /\ unread = FALSE
    /\ io = <<>>
    /\ wire = <<>>
    /\ debug = 0 /\ LogObj = Unset
    /\ visited = 0 /\ i_count = 0 /\ skip_list = <<>> /\ uncommitted = 0

Init ==
    /\ pc = "new"
    /\ config_file \in ConfigFiles
    /\ Boot

\* the locals of fetch go out of scope
DropLocals ==
    /\ document' = <<>> /\ res' = NoResponse /\ f' = NoFile
    /\ hash_sha256' = <<>> /\ hash_md5' = <<>>

\* an exception leaves fetch and reaches the handlers of run
Raise(e) ==
    /\ pc' = "except"
    /\ exc' = e
    /\ DropLocals

\* fetch returns to the loop of run
Return ==
    /\ pc' = "run"
    /\ exc' = NoExc
    /\ DropLocals

Log(events) == io' = io \o events

\* ------------------------------------------------------------------------
\* Protocol driver (pkg_acquire_method.__init__, __get_next_msg, run)
\* ------------------------------------------------------------------------
\* mutant: the constructor prints nothing
new_silent ==
    /\ pc = "new"
    /\ pc' = "run"
    /\ UNCHANGED <<io, exc, unread, fixedv, loopv, requestv, sessionv, localv>>

\* method = spacewalk_method(): the constructor prints the capabilities
new ==
    /\ pc = "new"
    /\ Log(<<Emit(100, T_Capabilities,
                  (<<"Version">> :> Str(<<"1.0">>))
                  @@ (<<"Single-Instance">> :> Str(<<"true">>)))>>)
    /\ pc' = "run"
    /\ UNCHANGED <<exc, unread, fixedv, loopv, requestv, sessionv, localv>>

\* the frames the front end may send next
NextFrames ==
    IF nframes < MaxFrames THEN CompleteFrames \cup TruncatedFrames ELSE {}

\* msg = self.__get_next_msg(); the readline event counts the calls of
\* sys.stdin.readline()
get_next_msg ==
    /\ pc = "run"
    /\ IF eof
       THEN /\ msg' = None
            /\ io' = <<Event("readline", 0, <<>>, EmptyDict)>>
            /\ UNCHANGED <<eof, nframes, stdin_end>>
       ELSE \E lines \in NextFrames \cup {<<>>} :
                LET r == ParseMsg(lines)
                IN  /\ msg' = r.msg
                    /\ eof' = r.eof
                    /\ nframes' = IF lines = <<>> THEN nframes ELSE nframes + 1
                    /\ stdin_end' = IF lines = <<>> THEN "boundary"
                                    ELSE IF r.eof THEN "midframe" ELSE "open"
                    /\ io' = <<Event("readline",
                                     Len(lines) + (IF r.eof THEN 1 ELSE 0),
                                     <<>>, EmptyDict)>>
    /\ pc' = "dispatch"
    /\ UNCHANGED <<exc, ret, unread, fixedv, requestv, sessionv, localv>>

\* mutant: an unexpected frame ends the loop with the status of a normal end
run_unexpected_returns_0 ==
    /\ pc = "dispatch"
    /\ IF msg = None
       THEN pc' = "exit" /\ ret' = PyInt(0)
       ELSE IF msg.v[K_number] = 600
            THEN pc' = "fetch" /\ ret' = ret
            ELSE pc' = "exit" /\ ret' = PyInt(0)
    /\ UNCHANGED <<exc, io, unread, fixedv, eof, msg, nframes, stdin_end,
                   requestv, sessionv, localv>>

\* the body of run's loop after the read
run ==
    /\ pc = "dispatch"
    /\ IF msg = None
       THEN pc' = "exit" /\ ret' = PyInt(0)
       ELSE IF msg.v[K_number] = 600
            THEN pc' = "fetch" /\ ret' = ret
            ELSE pc' = "exit" /\ ret' = PyInt(100)
    /\ UNCHANGED <<exc, io, unread, fixedv, eof, msg, nframes, stdin_end,
                   requestv, sessionv, localv>>

\* fail(message): uri_failure with self.uri
fail(message) ==
    uri_failure((K_URI :> uri) @@ (K_Message :> Str(message)))

\* run's handlers: self.fail(e.__class__.__name__ + ": " + str(e)).  fail
\* reads self.uri, an attribute that only fetch assigns: while it is
\* unassigned the handler raises AttributeError, which leaves run and ends
\* the process with a traceback (exit status 1)
NoUriAttribute ==
    Exc(<<"AttributeError">>,
        <<"spacewalk_method instance has no attribute 'uri'">>)
except ==
    /\ pc = "except"
    /\ IF uri = Unset
       THEN /\ pc' = "exit"
            /\ ret' = PyInt(1)
            /\ exc' = NoUriAttribute
            /\ io' = io
       ELSE /\ Log(<<fail(exc.cls \o <<":", " ">> \o exc.msg)>>)
            /\ pc' = "run"
            /\ ret' = ret
            /\ exc' = NoExc
    /\ UNCHANGED <<unread, fixedv, eof, msg, nframes, stdin_end,
                   requestv, sessionv, localv>>

\* mutant: the process ends without closing the connection
del_without_close ==
    /\ pc = "exit"
    /\ pc' = "terminated"
    /\ UNCHANGED <<io, exc, unread, fixedv, loopv, requestv, sessionv, localv>>

\* sys.exit(ret) or the traceback; __del__ closes the connection when the
\* interpreter finalizes the method object
del ==
    /\ pc = "exit"
    /\ pc' = "terminated"
    /\ IF conn # None
       THEN Log(<<Call("conn.close")>>)
       ELSE io' = io
    /\ UNCHANGED <<exc, unread, fixedv, loopv, requestv, sessionv, localv>>

\* ------------------------------------------------------------------------
\* Session manager and fetch engine (class spacewalk_method)
\* ------------------------------------------------------------------------
\* fetch, the three assignments from msg
fetch ==
    /\ pc = "fetch"
    /\ IF K_URI \notin DOMAIN msg.v
       THEN /\ Raise(KeyError(K_URI))
            /\ UNCHANGED requestv
       ELSE /\ uri' = Str(msg.v[K_URI])
            /\ uri_parsed' = Urlparse(msg.v[K_URI])
            /\ IF K_Filename \notin DOMAIN msg.v
               THEN /\ Raise(KeyError(K_Filename))
                    /\ filename' = filename
               ELSE /\ filename' = Str(msg.v[K_Filename])
                    /\ pc' = "load_config"
                    /\ UNCHANGED <<exc, localv>>
    /\ UNCHANGED <<io, unread, fixedv, loopv, sessionv>>

\* urlparse(None)
UrlparseNone ==
    Exc(<<"AttributeError">>, <<"'NoneType' object has no attribute 'find'">>)

\* self.__load_config()
load_config ==
    /\ pc = "load_config"
    /\ IF up2date_cfg = None
       THEN /\ up2date_cfg' = [type |-> "config", v |-> config_file]
            /\ Log(<<Call("initUp2dateConfig")>>)
            /\ IF config_file.serverURL = None
               THEN /\ Raise(UrlparseNone)
                    /\ up2date_server' = up2date_server
               ELSE /\ up2date_server' = Urlparse(config_file.serverURL.v)
                    /\ pc' = "check_host"
                    /\ UNCHANGED <<exc, localv>>
       ELSE /\ pc' = "check_host"
            /\ UNCHANGED <<up2date_cfg, up2date_server, io, exc, localv>>
    /\ UNCHANGED <<unread, fixedv, loopv, requestv, login_info,
                   svr_channels, base_channel, http_headers, conn, nconn>>

\* if self.uri_parsed.netloc != self.up2date_server.netloc: return self.fail()
NoServerAttribute ==
    Exc(<<"AttributeError">>,
        <<"spacewalk_method instance has no attribute 'up2date_server'">>)
\* mutant: the host of the URI is not compared with the server's
check_host_not_compared ==
    /\ pc = "check_host"
    /\ IF up2date_server = Unset
       THEN Raise(NoServerAttribute) /\ io' = io
       ELSE pc' = "login" /\ UNCHANGED <<io, exc, localv>>
    /\ UNCHANGED <<unread, fixedv, loopv, requestv, sessionv>>

check_host ==
    /\ pc = "check_host"
    /\ IF up2date_server = Unset
       THEN Raise(NoServerAttribute) /\ io' = io
       ELSE IF uri_parsed.netloc # up2date_server.netloc
            THEN Log(<<fail(not_registered_msg)>>) /\ Return
            ELSE pc' = "login" /\ UNCHANGED <<io, exc, localv>>
    /\ UNCHANGED <<unread, fixedv, loopv, requestv, sessionv>>

\* self.__login()
login ==
    /\ pc = "login"
    /\ IF login_info = None
       THEN \/ \E answer \in LoginAnswers :
                  /\ login_info' = answer
                  /\ IF ~ Truthy(answer)
                     THEN /\ Log(<<status(uri.v, <<"Logging into the spacewalk server">>),
                                   Call("getLoginInfo")>>)
                          /\ Raise(AuthenticationError(not_registered_msg))
                     ELSE /\ Log(<<status(uri.v, <<"Logging into the spacewalk server">>),
                                   Call("getLoginInfo"),
                                   status(uri.v, <<"Logged in">>)>>)
                          /\ pc' = "init_channels"
                          /\ UNCHANGED <<exc, localv>>
            \/ /\ Log(<<status(uri.v, <<"Logging into the spacewalk server">>),
                        Call("getLoginInfo")>>)
               /\ Raise(CommunicationError)
               /\ login_info' = login_info
       ELSE /\ pc' = "init_channels"
            /\ UNCHANGED <<login_info, io, exc, localv>>
    /\ UNCHANGED <<unread, fixedv, loopv, requestv, up2date_cfg,
                   up2date_server, svr_channels, base_channel, http_headers,
                   conn, nconn>>

\* the for loop of __init_channels over channels[i..]
RECURSIVE LastRoot(_, _, _)
LastRoot(channels, i, base) ==
    IF i > Len(channels) THEN base
    ELSE LastRoot(channels, i + 1,
                  IF channels[i].parent_channel = <<>>
                  THEN Str(channels[i].label) ELSE base)

\* self.__init_channels()
init_channels ==
    /\ pc = "init_channels"
    /\ IF svr_channels = None
       THEN \/ \E answer \in ChannelAnswers :
                  /\ svr_channels' = answer
                  /\ base_channel' = LastRoot(answer.v, 1, base_channel)
                  /\ Log(<<Call("getChannelDetails")>>)
                  /\ pc' = "transform"
                  /\ UNCHANGED <<exc, localv>>
            \/ /\ Log(<<Call("getChannelDetails")>>)
               /\ Raise(CommunicationError)
               /\ UNCHANGED <<svr_channels, base_channel>>
       ELSE /\ pc' = "transform"
            /\ UNCHANGED <<svr_channels, base_channel, io, exc, localv>>
    /\ UNCHANGED <<unread, fixedv, loopv, requestv, up2date_cfg,
                   up2date_server, login_info, http_headers, conn, nconn>>

\* document = self.__transform_document(self.uri_parsed.path)
ConcatNone ==
    Exc(<<"TypeError">>, <<"cannot concatenate 'str' and 'NoneType' objects">>)
transform ==
    /\ pc = "transform"
    /\ IF base_channel = None
       THEN Raise(ConcatNone)
       ELSE /\ document' = transform_document(uri_parsed.path, base_channel.v)
            /\ pc' = "init_headers"
            /\ UNCHANGED <<exc, res, f, hash_sha256, hash_md5>>
    /\ UNCHANGED <<io, unread, fixedv, loopv, requestv, sessionv>>

\* the headers __init_headers has copied when its for loop ends or raises
FirstMissing(info) ==
    IF \A i \in 1..Len(rhn_needed_headers) : rhn_needed_headers[i] \in DOMAIN info
    THEN 0
    ELSE CHOOSE i \in 1..Len(rhn_needed_headers) :
             /\ rhn_needed_headers[i] \notin DOMAIN info
             /\ \A j \in 1..(i - 1) : rhn_needed_headers[j] \in DOMAIN info
CopiedHeaders(info, n) ==
    [k \in {rhn_needed_headers[i] : i \in 1..n} |-> info[k]]
K_Capability == <<"X-RHN-Transport-Capability">>

\* self.__init_headers()
init_headers ==
    /\ pc = "init_headers"
    /\ IF http_headers = None
       THEN LET m == FirstMissing(login_info.v)
            IN  IF m # 0
                THEN /\ http_headers' = Dict(CopiedHeaders(login_info.v, m - 1))
                     /\ Raise(AuthenticationError(
                            <<"Missing required login information ">>
                            \o rhn_needed_headers[m]))
                ELSE /\ http_headers' =
                            Dict(DictSet(CopiedHeaders(login_info.v,
                                                       Len(rhn_needed_headers)),
                                         K_Capability, <<"follow-redirects=3">>))
                     /\ pc' = "make_conn"
                     /\ UNCHANGED <<exc, localv>>
       ELSE /\ pc' = "make_conn"
            /\ UNCHANGED <<http_headers, exc, localv>>
    /\ UNCHANGED <<io, unread, fixedv, loopv, requestv, up2date_cfg,
                   up2date_server, login_info, svr_channels, base_channel,
                   conn, nconn>>

Connection(cls, id) == [type |-> "conn", cls |-> cls, id |-> id]

\* mutant: a connection is constructed for every request
make_conn_every_request ==
    /\ pc = "make_conn"
    /\ IF \/ up2date_server.scheme = <<"http">>
          \/ up2date_cfg.v.useNoSSLForPackages = 1
       THEN /\ conn' = Connection("HTTPConnection", nconn + 1)
            /\ nconn' = nconn + 1
            /\ Log(<<Event("HTTPConnection", nconn + 1,
                           up2date_server.netloc, EmptyDict)>>)
            /\ pc' = "request"
            /\ UNCHANGED <<exc, localv>>
       ELSE IF get_ssl_ca_cert(up2date_cfg.v).raised
            THEN /\ Raise(BadSslCaCertConfig)
                 /\ UNCHANGED <<conn, nconn, io>>
            ELSE /\ conn' = Connection("HTTPSConnection", nconn + 1)
                 /\ nconn' = nconn + 1
                 /\ Log(<<Event("HTTPSConnection", nconn + 1,
                                up2date_server.netloc, EmptyDict)>>)
                 /\ pc' = "request"
                 /\ UNCHANGED <<exc, localv>>
    /\ UNCHANGED <<unread, fixedv, loopv, requestv, up2date_cfg,
                   up2date_server, login_info, svr_channels, base_channel,
                   http_headers>>

\* self.__make_conn()
make_conn ==
    /\ pc = "make_conn"
    /\ IF conn = None
       THEN IF \/ up2date_server.scheme = <<"http">>
               \/ up2date_cfg.v.useNoSSLForPackages = 1
            THEN /\ conn' = Connection("HTTPConnection", nconn + 1)
                 /\ nconn' = nconn + 1
                 /\ Log(<<Event("HTTPConnection", nconn + 1,
                                up2date_server.netloc, EmptyDict)>>)
                 /\ pc' = "request"
                 /\ UNCHANGED <<exc, localv>>
            ELSE IF get_ssl_ca_cert(up2date_cfg.v).raised
                 THEN /\ Raise(BadSslCaCertConfig)
                      /\ UNCHANGED <<conn, nconn, io>>
                 ELSE /\ conn' = Connection("HTTPSConnection", nconn + 1)
                      /\ nconn' = nconn + 1
                      /\ Log(<<Event("HTTPSConnection", nconn + 1,
                                     up2date_server.netloc, EmptyDict)>>)
                      /\ pc' = "request"
                      /\ UNCHANGED <<exc, localv>>
       ELSE /\ pc' = "request"
            /\ UNCHANGED <<conn, nconn, io, exc, localv>>
    /\ UNCHANGED <<unread, fixedv, loopv, requestv, up2date_cfg,
                   up2date_server, login_info, svr_channels, base_channel,
                   http_headers>>

\* self.conn.request("GET", "/" + document, headers = self.http_headers)
\* and the status frame after it
request ==
    /\ pc = "request"
    /\ \/ /\ Log(<<Event("request", conn.id, <<"/">> \o document,
                         http_headers.v),
                   status(uri.v, <<"Waiting for headers">>)>>)
          /\ pc' = "getresponse"
          /\ UNCHANGED <<exc, localv>>
       \/ /\ Log(<<Event("request", conn.id, <<"/">> \o document,
                         http_headers.v)>>)
          /\ Raise(SocketError)
    /\ UNCHANGED <<unread, fixedv, loopv, requestv, sessionv>>

getheader(r, name) == r.headers[name]

\* data = res.read(4096): the call returned `data` (nothing at the end of
\* the body), or raised
Read(data) == Event("read", Len(data), data, EmptyDict)
ReadRaised == Event("read", -1, <<>>, EmptyDict)

\* res = self.conn.getresponse() and the frame that reports its status.
\* The connection hands out no response while the previous one is not
\* closed.
getresponse ==
    /\ pc = "getresponse"
    /\ IF unread
       THEN /\ Log(<<Call("getresponse")>>)
            /\ Raise(ResponseNotReady)
            /\ unread' = unread
       ELSE \/ /\ Log(<<Call("getresponse")>>)
               /\ Raise(SocketError)
               /\ unread' = unread
            \/ \E r \in Responses :
                  /\ res' = r
                  /\ unread' = TRUE
                  /\ exc' = exc
                  /\ UNCHANGED <<document, f, hash_sha256, hash_md5>>
                  /\ IF r.status # 200
                     THEN /\ Log(<<Call("getresponse"),
                                   uri_failure(
                                     (K_URI :> uri)
                                     @@ (K_Message :>
                                           Str(StrOf(r.status) \o <<" ", " ">>
                                               \o r.reason))
                                     @@ (K_FailReason :>
                                           Str(<<"HttpError">>
                                               \o StrOf(r.status))))>>)
                          /\ pc' = "drain"
                     ELSE /\ Log(<<Call("getresponse"),
                                   uri_start(
                                     (K_URI :> uri)
                                     @@ (K_Size :>
                                           getheader(r, "content_length"))
                                     @@ (K_LastModified :>
                                           getheader(r, "last_modified")))>>)
                          /\ pc' = "open"
    /\ UNCHANGED <<fixedv, loopv, requestv, sessionv>>

\* one pass of the loop that drains the body of a failed response, and
\* after the loop res.close() and return
drain ==
    /\ pc = "drain"
    /\ \/ /\ res.nread < MaxChunks
          /\ \E data \in Chunks :
                /\ res' = [res EXCEPT !.nread = @ + 1]
                /\ Log(<<Read(data)>>)
          /\ UNCHANGED <<pc, exc, unread, document, f, hash_sha256, hash_md5>>
       \/ /\ Log(<<Read(<<>>), Call("res.close")>>)
          /\ unread' = FALSE
          /\ Return
       \/ /\ Log(<<ReadRaised>>)
          /\ Raise(SocketError)
          /\ unread' = unread
    /\ UNCHANGED <<fixedv, loopv, requestv, sessionv>>

\* f = open(self.filename, "w") and the two fresh accumulators
open ==
    /\ pc = "open"
    /\ \/ /\ Log(<<Event("open", 0, filename.v, EmptyDict)>>)
          /\ f' = [open |-> TRUE, data |-> <<>>]
          /\ hash_sha256' = <<>>
          /\ hash_md5' = <<>>
          /\ pc' = "stream"
          /\ UNCHANGED <<exc, document, res>>
       \/ /\ Log(<<Event("open", 0, filename.v, EmptyDict)>>)
          /\ Raise(IOError)
    /\ UNCHANGED <<unread, fixedv, loopv, requestv, sessionv>>

\* mutant: the end of the body leads to uri_done without the two closes
stream_without_close ==
    /\ pc = "stream"
    /\ \/ /\ res.nread < MaxChunks
          /\ \E data \in Chunks :
                \/ /\ res' = [res EXCEPT !.nread = @ + 1]
                   /\ hash_sha256' = hash_sha256 \o data
                   /\ hash_md5' = hash_md5 \o data
                   /\ f' = [f EXCEPT !.data = @ \o data]
                   /\ Log(<<Read(data), Event("write", 0, data, EmptyDict)>>)
                   /\ UNCHANGED <<pc, exc, document>>
                \/ /\ Log(<<Read(data), Event("write", 0, data, EmptyDict)>>)
                   /\ Raise(IOError)
       \/ /\ Log(<<Read(<<>>)>>)
          /\ pc' = "done"
          /\ UNCHANGED <<exc, localv>>
       \/ /\ Log(<<ReadRaised>>)
          /\ Raise(SocketError)
    /\ UNCHANGED <<unread, fixedv, loopv, requestv, sessionv>>

\* one pass of the loop that streams the body to the destination
stream ==
    /\ pc = "stream"
    /\ \/ /\ res.nread < MaxChunks
          /\ \E data \in Chunks :
                \/ /\ res' = [res EXCEPT !.nread = @ + 1]
                   /\ hash_sha256' = hash_sha256 \o data
                   /\ hash_md5' = hash_md5 \o data
                   /\ f' = [f EXCEPT !.data = @ \o data]
                   /\ Log(<<Read(data), Event("write", 0, data, EmptyDict)>>)
                   /\ UNCHANGED <<pc, exc, document>>
                \/ /\ Log(<<Read(data), Event("write", 0, data, EmptyDict)>>)
                   /\ Raise(IOError)
       \/ /\ Log(<<Read(<<>>)>>)
          /\ pc' = "close"
          /\ UNCHANGED <<exc, localv>>
       \/ /\ Log(<<ReadRaised>>)
          /\ Raise(SocketError)
    /\ UNCHANGED <<unread, fixedv, loopv, requestv, sessionv>>

\* res.close(); f.close()
close ==
    /\ pc = "close"
    /\ Log(<<Call("res.close"), Call("f.close")>>)
    /\ unread' = FALSE
    /\ f' = [f EXCEPT !.open = FALSE]
    /\ pc' = "done"
    /\ UNCHANGED <<exc, fixedv, loopv, requestv, sessionv, document, res,
                   hash_sha256, hash_md5>>

\* self.uri_done({...})
done ==
    /\ pc = "done"
    /\ Log(<<uri_done((K_URI :> uri)
                      @@ (K_Filename :> filename)
                      @@ (K_Size :> getheader(res, "content_length"))
                      @@ (K_LastModified :> getheader(res, "last_modified"))
                      @@ (K_MD5 :> Str(HexDigest("md5", hash_md5)))
                      @@ (K_MD5Sum :> Str(HexDigest("md5", hash_md5)))
                      @@ (K_SHA256 :> Str(HexDigest("sha256", hash_sha256))))>>)
    /\ pc' = "return"
    /\ UNCHANGED <<exc, unread, fixedv, loopv, requestv, sessionv, localv>>

\* fetch returns after uri_done
fetch_return ==
    /\ pc = "return"
    /\ Return
    /\ UNCHANGED <<io, unread, fixedv, loopv, requestv, sessionv>>

Next ==
    \/ new \/ get_next_msg \/ run \/ except \/ del
    \/ fetch \/ load_config \/ check_host \/ login \/ init_channels
    \/ transform \/ init_headers \/ make_conn \/ request \/ getresponse
    \/ drain \/ open \/ stream \/ close \/ done \/ fetch_return

Spec == Init /\ [][Next]_vars

\* ------------------------------------------------------------------------
\* The message codec on its own: frames written by uri_start and
\* uri_failure travel over a pipe to __get_next_msg
\* ------------------------------------------------------------------------
MaxCodecFrames == 2

\* sys.stdin.readline() applied until the text is used up: the text cut
\* after each line feed
RECURSIVE ReadLines(_)
ReadLines(text) ==
    IF text = <<>> THEN <<>>
    ELSE LET k == CHOOSE j \in 1..(Len(text) + 1) :
                      /\ (j = Len(text) + 1 \/ text[j] = "\n")
                      /\ \A m \in 1..(j - 1) : text[m] # "\n"
         IN  IF k > Len(text) THEN <<text>>
             ELSE <<SubSeq(text, 1, k)>>
                  \o ReadLines(SubSeq(text, k + 1, Len(text)))

\* the orders in which msg.keys() may list the keys of a dict
KeyOrders(keys) ==
    {s \in [1..Cardinality(keys) -> keys] :
        \A a, b \in DOMAIN s : a # b => s[a] # s[b]}

\* field values and field mappings given to the encoder, every value present
CodecValues == {<<"x">>, <<" ", "x", " ">>}
CodecFields ==
    {EmptyDict}
    \cup {K_URI :> Str(v) : v \in CodecValues}
    \cup {K_Message :> Str(v) : v \in CodecValues}
    \cup {(K_URI :> Str(v)) @@ (K_Message :> Str(w)) :
              v \in CodecValues, w \in CodecValues}
    \cup {K_URI :> Str(<<"a", ":", " ", "b">>),
          <<"X", ":", "Y">> :> Str(<<"x">>),
          K_text :> Str(<<"x">>)}

InitCodec ==
    /\ pc = "codec"
    /\ config_file = Config(None, 0, None)
    /\ Boot

\* self.uri_start(fields) or self.uri_failure(fields) of a peer whose
\* standard output is the pipe
print_frame ==
    /\ pc = "codec"
    /\ Len(io) < MaxCodecFrames
    /\ \E fields \in CodecFields, number \in {200, 400} :
          \E keys \in KeyOrders(DOMAIN fields) :
              LET e == IF number = 200 THEN uri_start(fields)
                       ELSE uri_failure(fields)
              IN  /\ Log(<<e>>)
                  /\ wire' = wire \o ReadLines(EmitText(e.n, e.s, fields, keys))
    /\ UNCHANGED <<pc, exc, unread, config_file, batchv, loopv, requestv,
                   sessionv, localv>>

\* __get_next_msg reading from the pipe, when a frame is waiting in it
decode ==
    /\ pc = "codec"
    /\ nframes < Len(io)
    /\ LET r == ParseMsg(wire)
       IN  /\ msg' = r.msg
           /\ eof' = r.eof
           /\ wire' = SubSeq(wire, r.next, Len(wire))
    /\ nframes' = nframes + 1
    /\ UNCHANGED <<pc, exc, io, unread, config_file, batchv, ret, stdin_end,
                   requestv, sessionv, localv>>

NextCodec == print_frame \/ decode

SpecCodec == InitCodec /\ [][NextCodec]_vars

\* ------------------------------------------------------------------------
\* The batch job (updateChecksums.py: main, process_package_data)
\* ------------------------------------------------------------------------
MaxPkgs == 1001

\* if i % 1000 == 0: rhnSQL.commit()
CommitEvery == 1000

\* what parser.parse_args() may return: positional arguments or none,
\* --debug or not, --db or not
Options == [args : BOOLEAN, debug : BOOLEAN, db : BOOLEAN]

\* Log is a local of process_package_data that only `if debug:` assigns
UnboundLocalLog ==
    Exc(<<"UnboundLocalError">>,
        <<"local variable 'Log' referenced before assignment">>)
\* new_abs_path is assigned nowhere
NameErrorNewAbsPath ==
    Exc(<<"NameError">>, <<"global name 'new_abs_path' is not defined">>)
\* what rhn_rpm.get_package_header and
\* server_packages.processPackageKeyAssociations may raise
HeaderError == Exc(<<"error">>, <<"error reading package header">>)
SQLError == Exc(<<"SQLError">>, <<"statement failed">>)

InitBatch ==
    /\ pc = "main"
    /\ config_file = Config(None, 0, None)
    /\ Boot

\* an exception leaves process_package_data and main
BatchRaise(e) ==
    /\ pc' = "raised"
    /\ exc' = e

\* main(), up to the call of process_package_data
main ==
    /\ pc = "main"
    /\ \E options \in Options :
          IF options.args
          THEN /\ pc' = "exited"
               /\ ret' = PyInt(-1)
               /\ debug' = debug
          ELSE /\ debug' = IF options.debug THEN 1 ELSE debug
               /\ IF ~ options.db
                  THEN pc' = "exited" /\ ret' = PyInt(1)
                  ELSE pc' = "process_package_data" /\ ret' = ret
    /\ UNCHANGED <<exc, io, unread, config_file, wire, LogObj, visited,
                   i_count, skip_list, uncommitted, eof, msg, nframes,
                   stdin_end, requestv, sessionv, localv>>

\* process_package_data, up to the for loop: the query returns no package
\* or some
process_package_data ==
    /\ pc = "process_package_data"
    /\ LogObj' = IF debug # 0 THEN [type |-> "rhnLog"] ELSE LogObj
    /\ \E empty \in BOOLEAN :
          IF empty
          THEN pc' = "returned" /\ UNCHANGED <<skip_list, i_count>>
          ELSE pc' = "for" /\ skip_list' = <<>> /\ i_count' = 0
    /\ UNCHANGED <<exc, io, unread, config_file, wire, debug, visited,
                   uncommitted, loopv, requestv, sessionv, localv>>

\* for pkg in pkgs: the loop takes the next package, whose file exists or
\* not, or the list is used up
for_pkg ==
    /\ pc = "for"
    /\ \/ /\ visited < MaxPkgs
          /\ visited' = visited + 1
          /\ \E exists \in BOOLEAN :
                IF exists
                THEN /\ pc' = "get_package_header"
                     /\ UNCHANGED <<skip_list, exc>>
                ELSE /\ skip_list' = Append(skip_list, visited + 1)
                     /\ IF LogObj = Unset
                        THEN BatchRaise(UnboundLocalLog)
                        ELSE pc' = "for" /\ exc' = exc
       \/ /\ visited > 0
          /\ pc' = "final_commit"
          /\ UNCHANGED <<visited, skip_list, exc>>
    /\ UNCHANGED <<io, unread, config_file, wire, debug, LogObj, i_count,
                   uncommitted, loopv, requestv, sessionv, localv>>

\* hdr = rhn_rpm.get_package_header(filename=full_path), and the commit
\* before its exception is raised again
get_package_header ==
    /\ pc = "get_package_header"
    /\ \/ /\ pc' = "processPackageKeyAssociations"
          /\ UNCHANGED <<exc, uncommitted>>
       \/ /\ uncommitted' = 0
          /\ BatchRaise(HeaderError)
    /\ UNCHANGED <<io, unread, config_file, wire, debug, LogObj, visited,
                   i_count, skip_list, loopv, requestv, sessionv, localv>>

\* server_packages.processPackageKeyAssociations(...), the debug message
\* and i = i + 1
processPackageKeyAssociations ==
    /\ pc = "processPackageKeyAssociations"
    /\ \/ /\ BatchRaise(SQLError)
          /\ UNCHANGED <<uncommitted, i_count>>
       \/ /\ uncommitted' = uncommitted + 1
          /\ IF debug # 0
             THEN /\ BatchRaise(NameErrorNewAbsPath)
                  /\ i_count' = i_count
             ELSE /\ i_count' = i_count + 1
                  /\ pc' = "commit"
                  /\ exc' = exc
    /\ UNCHANGED <<io, unread, config_file, wire, debug, LogObj, visited,
                   skip_list, loopv, requestv, sessionv, localv>>

\* if i % 1000 == 0: rhnSQL.commit()
commit_every ==
    /\ pc = "commit"
    /\ uncommitted' = IF i_count % CommitEvery = 0 THEN 0 ELSE uncommitted
    /\ pc' = "for"
    /\ UNCHANGED <<exc, io, unread, config_file, wire, debug, LogObj,
                   visited, i_count, skip_list, loopv, requestv, sessionv,
                   localv>>

\* pb.printComplete(), the final rhnSQL.commit() and return
final_commit ==
    /\ pc = "final_commit"
    /\ uncommitted' = 0
    /\ pc' = "returned"
    /\ UNCHANGED <<exc, io, unread, config_file, wire, debug, LogObj,
                   visited, i_count, skip_list, loopv, requestv, sessionv,
                   localv>>

NextBatch ==
    \/ main \/ process_package_data \/ for_pkg \/ get_package_header
    \/ processPackageKeyAssociations \/ commit_every \/ final_commit

SpecBatch == InitBatch /\ [][NextBatch]_vars

\* ------------------------------------------------------------------------
\* Vocabulary of the properties
\* ------------------------------------------------------------------------
Exited == pc \in {"exit", "terminated"}
\* the loop of run is about to read the frame after a 600 frame
Handled == pc = "run" /\ msg # None
IsFrame(e, number) == e.op = "print" /\ e.n = number
FramesOf(number) == {i \in DOMAIN io : IsFrame(io[i], number)}
CallsOf(op) == {i \in DOMAIN io : io[i].op = op}
TerminalFrames == FramesOf(201) \cup FramesOf(400)

\* C1: a failure while handling a 600 frame never ends the loop of run: the
\* loop ends only on the end-of-stream signal or on a frame whose code is
\* not 600.
C1_FailureNeverEndsLoop ==
    Exited => (msg = None \/ msg.v[K_number] # 600)

\* C2: when the next frame is about to be read, exactly one terminal frame
\* (201 URI Done or 400 URI Failure) has been written for the 600 frame
\* that was handled.
C2_ExactlyOneTerminalFrame ==
    Handled => Cardinality(TerminalFrames) = 1

\* since the last read, nothing was written and no collaborator was called
NothingDoneForFrame ==
    \A i \in DOMAIN io : io[i].op \in {"readline", "conn.close"}

\* C3 as stated: exit status 0 exactly when the input ended at a frame
\* boundary, 100 exactly when a frame with a code other than 600 was
\* received, and for such a frame nothing is written, fetched or read.
C3_ExitZeroOnlyAtFrameBoundary ==
    Exited =>
        /\ (ret = PyInt(0)) <=> (msg = None /\ stdin_end = "boundary")
        /\ (ret = PyInt(100)) <=> (msg # None /\ msg.v[K_number] # 600)
        /\ ret = PyInt(100) => NothingDoneForFrame

\* C3 amended: exit status 0 exactly when run read the end-of-stream signal,
\* the stream having ended at a frame boundary or in mid-frame; 100 exactly
\* when a frame with a code other than 600 was received, and for such a
\* frame nothing is written, fetched or read.
C3_ExitCodes ==
    Exited =>
        /\ (ret = PyInt(0)) <=> (msg = None /\ stdin_end # "open")
        /\ msg = None => stdin_end # "open"
        /\ (ret = PyInt(100)) <=> (msg # None /\ msg.v[K_number] # 600)
        /\ ret = PyInt(100) => NothingDoneForFrame
C3_Witness ==
    pc = "terminated" /\ ret = PyInt(0) /\ stdin_end = "midframe"

\* C4: every GET that is issued carries the five mandatory headers and
\* X-RHN-Transport-Capability, so no GET is issued while LoginInfo lacks
\* a mandatory field.
C4_EveryGetCarriesAllHeaders ==
    \A i \in CallsOf("request") :
        NeededSet \cup {K_Capability} \subseteq DOMAIN io[i].d

\* C5: in the 201 URI Done frame, Size is the number of bytes written to
\* the destination and the three hashes are the digests of those bytes.
C5_DoneFrameDescribesWrittenBytes ==
    pc = "return" =>
        LET e == io[Len(io)]
        IN  /\ IsFrame(e, 201)
            /\ K_Size \in DOMAIN e.d
            /\ e.d[K_Size] = StrOf(Len(f.data))
            /\ e.d[K_MD5] = HexDigest("md5", f.data)
            /\ e.d[K_MD5Sum] = HexDigest("md5", f.data)
            /\ e.d[K_SHA256] = HexDigest("sha256", f.data)

\* the frame being handled is a 600 frame whose URI names another host than
\* the serverURL of the configuration
HostMismatch ==
    /\ msg # None
    /\ msg.v[K_number] = 600
    /\ K_URI \in DOMAIN msg.v
    /\ config_file.serverURL # None
    /\ Urlparse(msg.v[K_URI]).netloc # Urlparse(config_file.serverURL.v).netloc

\* while such a frame is handled, the only events are the read, the load of
\* the configuration and, once fetch has returned, one 400 frame
C6_OnlyFailureFrame ==
    HostMismatch =>
        /\ \A i \in DOMAIN io :
               io[i].op \in {"readline", "initUp2dateConfig", "print"}
        /\ FramesOf(102) \cup FramesOf(200) \cup FramesOf(201) = {}
        /\ Cardinality(FramesOf(400)) = (IF pc = "run" THEN 1 ELSE 0)
\* a step taken while such a frame is handled leaves the session alone
C6_SessionUntouched ==
    HostMismatch =>
        UNCHANGED <<login_info, svr_channels, http_headers, conn>>

\* C6: a 600 frame for another host is answered with one 400 frame and
\* nothing else: no status, start or done frame, no call of getLoginInfo or
\* getChannelDetails, no connection, no GET, no open of the destination,
\* and login_info, svr_channels, http_headers and conn keep their values.
C6_HostMismatchRejected ==
    [] C6_OnlyFailureFrame /\ [][C6_SessionUntouched]_vars
C6_Witness ==
    Handled /\ HostMismatch /\ Cardinality(FramesOf(400)) = 1

\* C7: after a response whose status is not 200, when the next frame is
\* about to be read, the destination was not opened or written and the
\* response has been read to its end and closed.
HttpFailureReported ==
    \E i \in FramesOf(400) : K_FailReason \in DOMAIN io[i].d
C7_FailedResponseDrainedAndClosed ==
    (Handled /\ HttpFailureReported) =>
        /\ CallsOf("open") \cup CallsOf("write") = {}
        /\ CallsOf("res.close") # {}
        /\ ~ unread

\* the events a step adds to io
Added ==
    IF Len(io') >= Len(io) /\ SubSeq(io', 1, Len(io)) = io
    THEN SubSeq(io', Len(io) + 1, Len(io'))
    ELSE io'
Called(op) == \E i \in DOMAIN Added : Added[i].op = op

\* a step changes no populated session field and calls no collaborator of one
C8_FieldsKept ==
    /\ up2date_cfg # None =>
           up2date_cfg' = up2date_cfg /\ ~ Called("initUp2dateConfig")
    /\ up2date_server # Unset => up2date_server' = up2date_server
    /\ login_info # None =>
           login_info' = login_info /\ ~ Called("getLoginInfo")
    /\ svr_channels # None =>
           /\ svr_channels' = svr_channels
           /\ base_channel' = base_channel
           /\ ~ Called("getChannelDetails")
    /\ http_headers # None => http_headers' = http_headers
    /\ conn # None =>
           /\ conn' = conn
           /\ ~ Called("HTTPConnection")
           /\ ~ Called("HTTPSConnection")
\* one connection object at most, and every GET of this request went over it
C8_OneConnection ==
    /\ nconn <= 1
    /\ \A i \in CallsOf("request") : io[i].n = 1

\* C8: a session field that holds a value is never changed and its
\* collaborator is never called again, and every GET goes over the first
\* connection object that was constructed.
C8_PopulatedOnce ==
    [][C8_FieldsKept]_vars /\ [] C8_OneConnection
\* a later request reaches the GET with the whole session memoized
C8_Witness ==
    /\ nframes > 1
    /\ CallsOf("request") # {}
    /\ \A i \in DOMAIN io :
           io[i].op \notin {"initUp2dateConfig", "getLoginInfo",
                            "getChannelDetails", "HTTPConnection",
                            "HTTPSConnection"}

\* C9: a configuration error (no serverURL) or a bad TLS configuration
\* (no CA certificate) is raised only before the first frame is read.
C9_FatalErrorsBeforeAnyFrame ==
    exc \in {UrlparseNone, BadSslCaCertConfig} => nframes = 0

StartsWith(s, t) == Len(t) <= Len(s) /\ SubSeq(s, 1, Len(t)) = t
\* the request path is /dists/channels:/main/<rest>
MainPath(path) == StartsWith(path, <<"/">> \o MainMarker)
RestOf(path) == SubSeq(path, Len(MainMarker) + 2, Len(path))

\* C10 as stated: for a request path /dists/channels:/main/<rest> and root
\* channel R, the GET path ends with
\* /XMLRPC/GET-REQ/dists/channels:/R/<rest>.
C10_GetPathKeepsChannelsPrefix ==
    \A i \in CallsOf("request") :
        MainPath(uri_parsed.path) =>
            EndsWith(io[i].s,
                     GetReqPrefix \o ChannelsPrefix \o base_channel.v
                     \o <<"/">> \o RestOf(uri_parsed.path))

\* C10 amended: for a request path /dists/channels:/main/<rest> and root
\* channel R, the GET path ends with /XMLRPC/GET-REQ followed by /R/<rest>
\* in which the first /binary-<word>/ segment, if any, is replaced by
\* /repodata/.
C10_GetPath ==
    \A i \in CallsOf("request") :
        MainPath(uri_parsed.path) =>
            EndsWith(io[i].s,
                     <<"/", "XMLRPC", "/", "GET-REQ">>
                     \o ReSubBinary(<<"/">> \o base_channel.v \o <<"/">>
                                    \o RestOf(uri_parsed.path)))
C10_Witness ==
    \E i \in CallsOf("request") :
        /\ uri_parsed.path = PathRepomd
        /\ io[i].s = <<"/", "/", "/", "XMLRPC", "/", "GET-REQ", "/",
                       "prod-x86_64", "/", "repodata", "/", "repomd.xml">>

\* C11: the 100 Capabilities frame (Version: 1.0, Single-Instance: true) is
\* written exactly once, by the constructor: nothing is written and nothing
\* is read before it, the constructor's step writes exactly this frame, and
\* no later step writes a 100 frame or constructs the method again.
C11_CapabilitiesOnceAndFirst ==
    /\ [](pc = "new" => io = <<>> /\ nframes = 0 /\ msg = None /\ ~ eof)
    /\ [][/\ pc = "new" =>
                Added = <<[op |-> "print", n |-> 100, s |-> <<"Capabilities">>,
                           d |-> (<<"Version">> :> <<"1.0">>)
                                 @@ (<<"Single-Instance">> :> <<"true">>)]>>
          /\ pc # "new" =>
                /\ \A i \in DOMAIN Added : ~ IsFrame(Added[i], 100)
                /\ pc' # "new"]_vars
C11_Witness ==
    pc = "run" /\ nframes = 0 /\ Len(io) = 1 /\ FramesOf(100) = {1}

\* C12: every 102, 200, 201 and 400 frame written while a 600 request is
\* handled carries the URI of that request, never the URI of an earlier one.
C12_FramesCarryRequestUri ==
    \A i \in FramesOf(102) \cup FramesOf(200) \cup TerminalFrames :
        /\ msg # None
        /\ K_URI \in DOMAIN io[i].d
        /\ K_URI \in DOMAIN msg.v
        /\ io[i].d[K_URI] = msg.v[K_URI]

\* C13: when a request fails while the session is established (no or empty
\* credentials, a mandatory login field absent, no root channel in the
\* channel list), the session field concerned is left unpopulated, so that
\* the next request calls the collaborator again.
C13_FailedSessionFieldLeftUnpopulated ==
    pc = "except" =>
        /\ exc = AuthenticationError(not_registered_msg) =>
               login_info = None /\ http_headers = None
        /\ exc = ConcatNone => svr_channels = None

\* C14: for a response with status 200, the 200 URI Start frame is written
\* before the destination is opened and before the first read of the body;
\* the 201 URI Done frame is written only after a read has found the body
\* exhausted and both the response and the destination have been closed.
C14_StartBeforeBodyDoneAfterClose ==
    /\ \A i \in FramesOf(200) :
           \A j \in CallsOf("open") \cup CallsOf("read") \cup CallsOf("write") :
               i < j
    /\ \A j \in CallsOf("open") \cup CallsOf("write") : FramesOf(200) # {}
    /\ \A i \in FramesOf(201) :
           /\ \E j \in CallsOf("read") :
                  /\ j < i
                  /\ io[j] = Read(<<>>)
                  /\ \A k \in CallsOf("read") : k <= j
           /\ \E j \in CallsOf("res.close") : j < i
           /\ \E j \in CallsOf("f.close") : j < i
           /\ ~ unread
           /\ ~ f.open
C14_Witness ==
    /\ FramesOf(200) # {}
    /\ FramesOf(201) # {}
    /\ \E j \in CallsOf("read") : io[j].n > 0

\* C15: when the stream ends in the middle of a frame, the partial frame is
\* dispatched like a complete one: a partial 600 frame is fetched, the read
\* after it returns the end-of-stream signal without reading the input
\* again, and the process exits with code 0 (a partial frame with another
\* code ends the loop with 100, as a complete one does).
C15_MidFrameEndExitsZero ==
    /\ (pc = "dispatch" /\ stdin_end = "midframe" /\ msg = None) =>
           io = <<Event("readline", 0, <<>>, EmptyDict)>>
    /\ (pc = "fetch" /\ stdin_end = "midframe") => eof
    /\ (Exited /\ stdin_end = "midframe") =>
           \/ msg = None /\ ret = PyInt(0)
           \/ msg # None /\ msg.v[K_number] # 600 /\ ret = PyInt(100)

C18_NoPendingResponseAtGet ==
    pc = "request" => ~ unread

\* the frame e, written and read back as m: same code, same text, same
\* mapping of fields to values
RoundTrip(e, m) ==
    /\ m # None
    /\ m.v[K_number] = e.n
    /\ m.v[K_text] = e.s
    /\ [k \in DOMAIN m.v \ {K_number, K_text} |-> m.v[k]] = e.d
\* the decoder has consumed the blank line: the pipe is empty or starts
\* with the first line of the next frame
NextAtFrame ==
    /\ ~ eof
    /\ IF nframes = Len(io) THEN wire = <<>>
       ELSE /\ wire # <<>>
            /\ wire[1] = Line(StrOf(io[nframes + 1].n) \o <<" ">>
                              \o io[nframes + 1].s)
\* field names without colon or line feed and other than _number and _text,
\* values without line feed and without white space at either end
PlainFields(d) ==
    \A k \in DOMAIN d :
        /\ k \notin {K_number, K_text}
        /\ \A j \in DOMAIN k : k[j] \notin {":", "\n"}
        /\ \A j \in DOMAIN d[k] : d[k][j] # "\n"
        /\ Strip(d[k]) = d[k]

C19_NoProcessedPackageLeftUncommitted ==
    /\ pc = "for" => uncommitted < CommitEvery
    /\ (pc = "raised" /\ exc = HeaderError) => uncommitted = 0
    /\ pc \in {"returned", "raised"} => uncommitted = 0

\* C20: for a non-empty package list and either debug setting, the job is
\* stopped by nothing but a failure of a collaborator (never by a missing
\* file), and it returns after every package was either processed or put on
\* the skip list and the final commit was made.
C20_EveryPackageVisitedThenFinalCommit ==
    /\ pc = "raised" => exc \in {HeaderError, SQLError}
    /\ (pc = "returned" /\ visited > 0) =>
           /\ visited = i_count + Len(skip_list)
           /\ uncommitted = 0

====
